---- MODULE Spec2Model ----
(***************************************************************************)
(* Model of the Google Maps scraper: the browser pool (BrowserPool), one   *)
(* orchestration run (scrapeGoogleMaps with collectListingUrls and the     *)
(* scrapeUrlChunk workers) and the HTTP entry points of the API server     *)
(* (POST /scrape, POST /scrape/async, GET /scrape/status/:jobId).          *)
(*                                                                         *)
(* JavaScript runs one callback at a time: the code between two awaits is  *)
(* one atomic action; every await is a point where other callbacks run.    *)
(***************************************************************************)
EXTENDS Integers, Sequences, FiniteSets, TLC

\* ------------------------------------------------------------------ bounds

\* calls of browserPool.acquire() in the pool specification
NumCallers == 4
\* largest maxResults a modelled call passes
MaxCap == 2
\* largest workers option a modelled call passes
MaxWorkers == 2
\* largest number of listing URLs the search page yields
MaxUrls == 3
\* POST /scrape requests that arrive
NumSync == 7
\* POST /scrape/async requests that arrive
NumAsync == 6
\* partition specification: largest number of urls discovery returns
MaxItems == 15
\* partition specification: largest workers option
MaxParts == 4
\* partition specification: largest maxResults
MaxPartCap == 7
\* shutdown specification: callers of acquire() while the signals arrive
NumShutCallers == 3
\* bulk specification: longest queries array of a request
MaxQueries == 4
\* scroll specification: largest maxResults of the run
MaxScrollCap == 2
\* scroll specification: largest listing count the page shows
MaxCount == 4
\* scroll specification: observations before the listing count stops changing
MaxObs == 5
\* loop specification: largest number of urls discovery returns
MaxLoopItems == 5
\* loop specification: largest maxResults
MaxLoopCap == 3
\* loop specification: workers ranges over -MaxNegParts .. MaxLoopParts
MaxNegParts == 3
MaxLoopParts == 3
\* loop specification: passes followed of a loop that does not end
MaxPasses == 8

\* ------------------------------------------------------- program constants

\* new BrowserPool(3)
maxSize == 3
\* parseInt(process.env.MAX_CONCURRENT_JOBS || '5')
MAX_CONCURRENT_JOBS == 5
\* const batchSize = 3 of POST /scrape/bulk
batchSize == 3
\* queries.length > 20 is refused
BulkLimit == 20
\* while (stableCount < 3)
StableLimit == 3

Callers == 1 .. NumCallers
\* the caller of acquire() that is the modelled scrapeGoogleMaps call
RunCaller == 1

VARIABLES
    \* BrowserPool
    browsers,        \* this.browsers: every browser pushed after creation
    available,       \* this.available: idle browsers, a stack
    connected,       \* the browsers whose isConnected() is true
    launched,        \* number of chromium.launch() calls that resolved
    apc,             \* per caller: where its acquire() call is
    held,            \* per caller: the browser acquire() returned
    \* one scrapeGoogleMaps call
    rpc,             \* where the call is
    maxResults,      \* options.maxResults
    workers,         \* options.workers
    pending,         \* what collectListingUrls is about to return or throw
    chunks,          \* chunks handed to the workers
    wpc,             \* per worker: where scrapeUrlChunk is
    widx,            \* per worker: index of the url being scraped
    wout,            \* per worker: its local results array
    seenBusinesses,  \* the Set shared by the workers and the merge
    results,         \* the list the call returns
    ctxOpen,         \* contexts created and not closed: 0 discovery, w worker
    events,          \* history: acquire, release, return, throw of the call
    finishOrder,     \* history: workers in the order they returned
    \* API server
    activeJobs,      \* let activeJobs
    sreq,            \* POST /scrape requests: state or response status
    jobs,            \* const jobs = new Map()
    arun,            \* per async job: state of its background promise
    areply,          \* last response of POST /scrape/async
    lookup,          \* last response of GET /scrape/status/:jobId
    changes,         \* history: per job, number of updates after creation
    \* closeAll and process exit
    closers,         \* per closeAll() call: where it is in its loop
    browsersGen,     \* which array object this.browsers refers to
    oldBrowsers,     \* the array objects this.browsers referred to before
    closeCalls,      \* history: per browser, number of close() calls
    exited,          \* process.exit(0) was called
    \* POST /scrape/bulk
    bulk,            \* the request: its queries, loop position, runs, maps
    \* loops followed pass by pass
    scroll,          \* the scroll loop of collectListingUrls
    ploop            \* the for loop of chunkArray

poolVars == <<browsers, available, connected, launched, apc, held>>
runVars  == <<rpc, maxResults, workers, pending, chunks, wpc, widx, wout,
              seenBusinesses, results, ctxOpen, events, finishOrder>>
apiVars  == <<activeJobs, sreq, jobs, arun, areply, lookup, changes>>
extVars  == <<closers, browsersGen, oldBrowsers, closeCalls, exited, bulk,
              scroll, ploop>>
vars     == <<poolVars, runVars, apiVars, extVars>>

\* ------------------------------------------------------------ sequences

Range(s) == {s[i] : i \in 1 .. Len(s)}

Front(s) == SubSeq(s, 1, Len(s) - 1)

Last(s) == s[Len(s)]

\* slice with the end index taken as inclusive
Slice_Inclusive(s, from, to) ==
    SubSeq(s, from + 1, IF to + 1 > Len(s) THEN Len(s) ELSE to + 1)

\* Array.prototype.slice(from, to) for 0 <= from <= to, zero-based
Slice(s, from, to) ==
    SubSeq(s, from + 1, IF to > Len(s) THEN Len(s) ELSE to)

\* ============================================================ BrowserPool

PoolInit ==
    /\ browsers = <<>>
    /\ available = <<>>
    /\ connected = {}
    /\ launched = 0
    /\ apc = [c \in Callers |-> "idle"]
    /\ held = [c \in Callers |-> 0]

\* release that pushes the browser whatever its connection state
release_Unconditional(avail, browser, conn) == Append(avail, browser)

\* release(browser): the new value of this.available
release(avail, browser, conn) ==
    IF browser \in conn THEN Append(avail, browser) ELSE avail

\* the test that lets acquire() create a browser
UnderLimit(n) == n < maxSize

\* acquire() from its first statement to its return or its first await
AcquireBody(c) ==
    LET popped == Len(available) > 0
        browser == Last(available)
        rest == IF popped THEN Front(available) ELSE available
    IN  /\ available' = rest
        /\ IF popped /\ browser \in connected
             THEN /\ apc' = [apc EXCEPT ![c] = "held"]
                  /\ held' = [held EXCEPT ![c] = browser]
             ELSE /\ held' = held
                  /\ IF UnderLimit(Len(browsers))
                       THEN apc' = [apc EXCEPT ![c] = "creating"]
                       ELSE apc' = [apc EXCEPT ![c] = "waiting"]
        /\ UNCHANGED <<browsers, connected, launched>>

\* the setTimeout of 100 ms fired: return this.acquire()
AcquireRetry(c) ==
    /\ apc[c] = "waiting"
    /\ AcquireBody(c)
    /\ UNCHANGED <<runVars, apiVars, extVars>>

\* chromium.launch() resolved: this.browsers.push(browser); return browser
CreateDone(c) ==
    /\ apc[c] = "creating"
    /\ launched' = launched + 1
    /\ connected' = connected \cup {launched + 1}
    /\ browsers' = Append(browsers, launched + 1)
    /\ held' = [held EXCEPT ![c] = launched + 1]
    /\ apc' = [apc EXCEPT ![c] = "held"]
    /\ UNCHANGED <<available, runVars, apiVars, extVars>>

\* chromium.launch() rejected: acquire() rejects
CreateFail(c) ==
    /\ apc[c] = "creating"
    /\ apc' = [apc EXCEPT ![c] = "failed"]
    /\ UNCHANGED <<browsers, available, connected, launched, held, runVars, apiVars, extVars>>

\* a browser process dies or loses its connection
Disconnect(b) ==
    /\ b \in connected
    /\ connected' = connected \ {b}
    /\ UNCHANGED <<browsers, available, launched, apc, held, runVars, apiVars, extVars>>

\* a caller of the pool specification calls acquire(), once
CallerAcquire(c) ==
    /\ apc[c] = "idle"
    /\ AcquireBody(c)
    /\ UNCHANGED <<runVars, apiVars, extVars>>

\* a caller of the pool specification is done with its browser
CallerRelease(c) ==
    /\ apc[c] = "held"
    /\ available' = release(available, held[c], connected)
    /\ apc' = [apc EXCEPT ![c] = "released"]
    /\ UNCHANGED <<browsers, connected, launched, held, runVars, apiVars, extVars>>

\* ====================================================== scrapeGoogleMaps

Workers == 1 .. MaxWorkers

\* business.name as scrapeDirectUrl returns it (never empty)
Names == {"a", "b"}
\* business.phone after normalizePhone: null or a non-empty string
NoPhone == "null"
Phones == {NoPhone, "p"}

\* the record scrapeDirectUrl returns for a url
Business(name, phone, url) ==
    [name |-> name, phone |-> phone, googleMapsUrl |-> url]

\* `${business.name}|${business.phone || ''}`
Key(business) ==
    <<business.name, IF business.phone = NoPhone THEN "" ELSE business.phone>>

\* Math.ceil(len / parts) for parts >= 1
CeilDiv(len, parts) == (len + parts - 1) \div parts

RECURSIVE ChunkLoop(_, _, _, _)
\* the for loop of chunkArray
ChunkLoop(array, chunkSize, i, acc) ==
    IF i < Len(array)
      THEN ChunkLoop(array, chunkSize, i + chunkSize,
                     Append(acc, Slice(array, i, i + chunkSize)))
      ELSE acc

chunkArray(array, parts) ==
    ChunkLoop(array, CeilDiv(Len(array), parts), 0, <<>>)

\* the whole list of urls handed to chunkArray
Candidates_NoSlice(urls, cap) == urls

\* urls.slice(0, maxResults * 2)
Candidates(urls, cap) == Slice(urls, 0, cap * 2)

\* the test that ends the inner merge loop
CapReached(res, cap) == Len(res) >= cap

\* the body of the inner merge loop after the cap test
MergeOne_NoDedup(acc, business) ==
    [results |-> Append(acc.results, business),
     seen |-> acc.seen \cup {Key(business)}]

MergeOne(acc, business) ==
    IF Key(business) \notin acc.seen
      THEN [results |-> Append(acc.results, business),
            seen |-> acc.seen \cup {Key(business)}]
      ELSE acc

RECURSIVE MergeChunk(_, _, _, _)
\* for (const business of chunk) { if (results.length >= maxResults) break; ... }
MergeChunk(chunk, i, acc, cap) ==
    IF i > Len(chunk) THEN acc
    ELSE IF CapReached(acc.results, cap) THEN acc
    ELSE MergeChunk(chunk, i + 1, MergeOne(acc, chunk[i]), cap)

RECURSIVE MergeAll(_, _, _, _)
\* for (const chunk of chunkResults) { ... }
MergeAll(chunkResults, c, acc, cap) ==
    IF c > Len(chunkResults) THEN acc
    ELSE MergeAll(chunkResults, c + 1, MergeChunk(chunkResults[c], 1, acc, cap), cap)

\* what Promise.all(workerPromises) resolves to, in completion order
ChunkResults_ByCompletion(out, order, n) == [k \in 1 .. n |-> out[order[k]]]

\* what Promise.all(workerPromises) resolves to: the outputs by worker index
ChunkResults(out, order, n) == [k \in 1 .. n |-> out[k]]

NoPending == [kind |-> "none", n |-> 0]

RunInit ==
    /\ rpc = "idle"
    /\ maxResults = 0
    /\ workers = 1
    /\ pending = NoPending
    /\ chunks = <<>>
    /\ wpc = [w \in Workers |-> "none"]
    /\ widx = [w \in Workers |-> 0]
    /\ wout = [w \in Workers |-> <<>>]
    /\ seenBusinesses = {}
    /\ results = <<>>
    /\ ctxOpen = {}
    /\ events = <<>>
    /\ finishOrder = <<>>

\* no scrapeUrlChunk of the previous call is still running
Drained == \A w \in Workers : wpc[w] \in {"none", "done", "failed"}

\* scrapeGoogleMaps(query, {maxResults: mr, workers: wk}) up to the await of acquire()
Call(mr, wk) ==
    /\ rpc \in {"idle", "done", "failed"}
    /\ Drained
    /\ maxResults' = mr
    /\ workers' = wk
    /\ results' = <<>>
    /\ seenBusinesses' = {}
    /\ pending' = NoPending
    /\ chunks' = <<>>
    /\ wpc' = [w \in Workers |-> "none"]
    /\ widx' = [w \in Workers |-> 0]
    /\ wout' = [w \in Workers |-> <<>>]
    /\ ctxOpen' = {}
    /\ events' = <<>>
    /\ finishOrder' = <<>>
    /\ rpc' = "acquire"
    /\ AcquireBody(RunCaller)
    /\ UNCHANGED <<apiVars, extVars>>

\* acquire() resolved: enter the try, collectListingUrls awaits browser.newContext
Acquired ==
    /\ rpc = "acquire"
    /\ apc[RunCaller] = "held"
    /\ rpc' = "discCtx"
    /\ events' = Append(events, "acquire")
    /\ UNCHANGED <<poolVars, maxResults, workers, pending, chunks, wpc, widx, wout,
                   seenBusinesses, results, ctxOpen, finishOrder, apiVars, extVars>>

\* acquire() rejected before the try: the call rejects, nothing was acquired
AcquireRejected ==
    /\ rpc = "acquire"
    /\ apc[RunCaller] = "failed"
    /\ rpc' = "failed"
    /\ events' = Append(events, "throw")
    /\ UNCHANGED <<poolVars, maxResults, workers, pending, chunks, wpc, widx, wout,
                   seenBusinesses, results, ctxOpen, finishOrder, apiVars, extVars>>

\* catch { throw error } only, the finally block missing on the error path
ExitTry_NoFinallyOnThrow(outcome, res) ==
    /\ available' = IF outcome = "throw" THEN available
                    ELSE release(available, held[RunCaller], connected)
    /\ events' = IF outcome = "throw" THEN Append(events, outcome)
                 ELSE events \o <<"release", outcome>>
    /\ rpc' = IF outcome = "throw" THEN "failed" ELSE "done"
    /\ results' = res
    /\ apc' = [apc EXCEPT ![RunCaller] = "idle"]
    /\ UNCHANGED <<browsers, connected, launched, held>>

\* leaving the try block: finally { browserPool.release(browser) }, then the
\* return of the list or the rethrow of the error
ExitTry(outcome, res) ==
    /\ available' = release(available, held[RunCaller], connected)
    /\ events' = events \o <<"release", outcome>>
    /\ rpc' = IF outcome = "throw" THEN "failed" ELSE "done"
    /\ results' = res
    /\ apc' = [apc EXCEPT ![RunCaller] = "idle"]
    /\ UNCHANGED <<browsers, connected, launched, held>>

\* ---------------------------------------------------- collectListingUrls

\* browser.newContext() of createOptimizedContext settled
DiscContext(ok) ==
    /\ rpc = "discCtx"
    /\ IF ok
         THEN /\ rpc' = "discPage"
              /\ ctxOpen' = ctxOpen \cup {0}
              /\ UNCHANGED <<poolVars, results, events>>
         ELSE /\ ExitTry("throw", results)
              /\ UNCHANGED ctxOpen
    /\ UNCHANGED <<maxResults, workers, pending, chunks, wpc, widx, wout,
                   seenBusinesses, finishOrder, apiVars, extVars>>

\* context.newPage() settled; it is outside the try of collectListingUrls
DiscPage(ok) ==
    /\ rpc = "discPage"
    /\ IF ok
         THEN /\ rpc' = "discRoute"
              /\ UNCHANGED <<poolVars, results, events>>
         ELSE ExitTry("throw", results)
    /\ UNCHANGED <<maxResults, workers, pending, chunks, wpc, widx, wout,
                   seenBusinesses, ctxOpen, finishOrder, apiVars, extVars>>

\* setupRequestInterception(page) settled; it is outside the try as well
DiscRoute(ok) ==
    /\ rpc = "discRoute"
    /\ IF ok
         THEN /\ rpc' = "discBody"
              /\ UNCHANGED <<poolVars, results, events>>
         ELSE ExitTry("throw", results)
    /\ UNCHANGED <<maxResults, workers, pending, chunks, wpc, widx, wout,
                   seenBusinesses, ctxOpen, finishOrder, apiVars, extVars>>

DiscBodyTo(p) ==
    /\ rpc = "discBody"
    /\ rpc' = "discClose"
    /\ pending' = p
    /\ UNCHANGED <<poolVars, maxResults, workers, chunks, wpc, widx, wout,
                   seenBusinesses, results, ctxOpen, events, finishOrder, apiVars, extVars>>

\* page.goto or a later step of the try body throws
DiscBodyThrow == DiscBodyTo([kind |-> "throw", n |-> 0])

\* waitForSelector(LISTING_LINK) timed out: return []
DiscBodyNoListing == DiscBodyTo([kind |-> "urls", n |-> 0])

\* the scroll loop ended: return [...new Set(urls)], n distinct urls
DiscBodyUrls(n) == DiscBodyTo([kind |-> "urls", n |-> n])

\* the urls collectListingUrls returns: n distinct locators
Urls(n) == [k \in 1 .. n |-> k]

\* if (urls.length === 0) return [] raised as an error instead
EarlyReturn_Throws == ExitTry("throw", <<>>)

\* if (urls.length === 0) { return []; }, through the finally block
EarlyReturn == ExitTry("return", <<>>)

\* finally { await context.close() } rejected: collectListingUrls throws
DiscCloseFail ==
    /\ rpc = "discClose"
    /\ ExitTry("throw", results)
    /\ UNCHANGED <<maxResults, workers, pending, chunks, wpc, widx, wout,
                   seenBusinesses, ctxOpen, finishOrder, apiVars, extVars>>

\* context closed, the error of the try body reaches the catch of the call
DiscCloseThrow ==
    /\ rpc = "discClose"
    /\ pending.kind = "throw"
    /\ ctxOpen' = ctxOpen \ {0}
    /\ ExitTry("throw", results)
    /\ UNCHANGED <<maxResults, workers, pending, chunks, wpc, widx, wout,
                   seenBusinesses, finishOrder, apiVars, extVars>>

\* context closed, collectListingUrls returned no url
DiscCloseEmpty ==
    /\ rpc = "discClose"
    /\ pending.kind = "urls"
    /\ pending.n = 0
    /\ ctxOpen' = ctxOpen \ {0}
    /\ EarlyReturn
    /\ UNCHANGED <<maxResults, workers, pending, chunks, wpc, widx, wout,
                   seenBusinesses, finishOrder, apiVars, extVars>>

\* context closed, urls returned: chunk them and start one scrapeUrlChunk per
\* chunk, each up to its await of browser.newContext; await Promise.all
DiscCloseFound ==
    /\ rpc = "discClose"
    /\ pending.kind = "urls"
    /\ pending.n > 0
    /\ ctxOpen' = ctxOpen \ {0}
    /\ chunks' = chunkArray(Candidates(Urls(pending.n), maxResults), workers)
    /\ wpc' = [w \in Workers |-> IF w <= Len(chunks') THEN "ctx" ELSE "none"]
    /\ rpc' = "fanin"
    /\ UNCHANGED <<poolVars, maxResults, workers, pending, widx, wout,
                   seenBusinesses, results, events, finishOrder, apiVars, extVars>>

\* --------------------------------------------------------- scrapeUrlChunk

\* the head of an iteration of for (const url of urls) after i urls: leave the
\* loop (to the finally block) at the end of the chunk or when
\* globalSeen.size >= maxTotal, else await scrapeDirectUrl of the next url
LoopHead(w, i) ==
    /\ widx' = [widx EXCEPT ![w] = i + 1]
    /\ wpc' = [wpc EXCEPT ![w] =
                 IF i + 1 > Len(chunks[w]) \/ Cardinality(seenBusinesses) >= maxResults
                   THEN "closing" ELSE "extract"]

\* browser.newContext() of createOptimizedContext settled
WorkerContext(w, ok) ==
    /\ wpc[w] = "ctx"
    /\ wpc' = [wpc EXCEPT ![w] = IF ok THEN "page" ELSE "failed"]
    /\ ctxOpen' = IF ok THEN ctxOpen \cup {w} ELSE ctxOpen
    /\ UNCHANGED <<poolVars, rpc, maxResults, workers, pending, chunks, widx, wout,
                   seenBusinesses, results, events, finishOrder, apiVars, extVars>>

\* context.newPage() settled, outside the try of scrapeUrlChunk
WorkerPage(w, ok) ==
    /\ wpc[w] = "page"
    /\ wpc' = [wpc EXCEPT ![w] = IF ok THEN "route" ELSE "failed"]
    /\ UNCHANGED <<poolVars, rpc, maxResults, workers, pending, chunks, widx, wout,
                   seenBusinesses, results, ctxOpen, events, finishOrder, apiVars, extVars>>

\* setupRequestInterception(page) settled, outside the try; on success the
\* loop starts
WorkerRoute(w, ok) ==
    /\ wpc[w] = "route"
    /\ IF ok THEN LoopHead(w, 0)
             ELSE /\ wpc' = [wpc EXCEPT ![w] = "failed"]
                  /\ UNCHANGED widx
    /\ UNCHANGED <<poolVars, rpc, maxResults, workers, pending, chunks, wout,
                   seenBusinesses, results, ctxOpen, events, finishOrder, apiVars, extVars>>

\* scrapeDirectUrl returned a business with a name
WorkerExtract(w, name, phone) ==
    /\ wpc[w] = "extract"
    /\ LET business == Business(name, phone, chunks[w][widx[w]])
       IN  wout' = IF Key(business) \notin seenBusinesses
                     THEN [wout EXCEPT ![w] = Append(@, business)]
                     ELSE wout
    /\ LoopHead(w, widx[w])
    /\ UNCHANGED <<poolVars, rpc, maxResults, workers, pending, chunks,
                   seenBusinesses, results, ctxOpen, events, finishOrder, apiVars, extVars>>

\* scrapeDirectUrl returned null: no name element appeared
WorkerExtractNull(w) ==
    /\ wpc[w] = "extract"
    /\ LoopHead(w, widx[w])
    /\ UNCHANGED <<poolVars, rpc, maxResults, workers, pending, chunks, wout,
                   seenBusinesses, results, ctxOpen, events, finishOrder, apiVars, extVars>>

\* an exception of scrapeDirectUrl that leaves the loop for the finally
WorkerExtractThrow_Aborts(w) ==
    /\ wpc[w] = "extract"
    /\ wpc' = [wpc EXCEPT ![w] = "closing"]
    /\ UNCHANGED <<poolVars, rpc, maxResults, workers, pending, chunks, widx, wout,
                   seenBusinesses, results, ctxOpen, events, finishOrder, apiVars, extVars>>

\* scrapeDirectUrl threw (navigation error, timeout): catch (e) { }
WorkerExtractThrow(w) ==
    /\ wpc[w] = "extract"
    /\ LoopHead(w, widx[w])
    /\ UNCHANGED <<poolVars, rpc, maxResults, workers, pending, chunks, wout,
                   seenBusinesses, results, ctxOpen, events, finishOrder, apiVars, extVars>>

\* finally { await context.close() } settled: return results, or the rejection
\* of close() leaves the function
WorkerClose(w, ok) ==
    /\ wpc[w] = "closing"
    /\ wpc' = [wpc EXCEPT ![w] = IF ok THEN "done" ELSE "failed"]
    /\ ctxOpen' = IF ok THEN ctxOpen \ {w} ELSE ctxOpen
    /\ finishOrder' = IF ok THEN Append(finishOrder, w) ELSE finishOrder
    /\ UNCHANGED <<poolVars, rpc, maxResults, workers, pending, chunks, widx, wout,
                   seenBusinesses, results, events, apiVars, extVars>>

\* ------------------------------------------------------- fan-in and merge

Launched == 1 .. Len(chunks)

\* Promise.all resolved: every worker returned; merge, release, return results
JoinResolve ==
    /\ rpc = "fanin"
    /\ \A w \in Launched : wpc[w] = "done"
    /\ LET merged == MergeAll(ChunkResults(wout, finishOrder, Len(chunks)), 1,
                              [results |-> results, seen |-> seenBusinesses],
                              maxResults)
       IN  /\ seenBusinesses' = merged.seen
           /\ ExitTry("return", merged.results)
    /\ UNCHANGED <<maxResults, workers, pending, chunks, wpc, widx, wout,
                   ctxOpen, finishOrder, apiVars, extVars>>

\* Promise.all rejected: a worker threw; catch, release, rethrow
JoinReject ==
    /\ rpc = "fanin"
    /\ \E w \in Launched : wpc[w] = "failed"
    /\ ExitTry("throw", results)
    /\ UNCHANGED <<maxResults, workers, pending, chunks, wpc, widx, wout,
                   seenBusinesses, ctxOpen, finishOrder, apiVars, extVars>>

\* ============================================================= API server

\* JavaScript values of the job fields
JsNull == <<"null">>
JsString(str) == <<"string", str>>
JsArray(list) == <<"array", list>>

\* result lists a scrapeGoogleMaps call resolves to, as the API layer sees them
ResultLists == {<<>>, <<"r1">>}
\* error.message of a rejected scrapeGoogleMaps call
ErrorMessages == {"Timeout 45000ms exceeded"}

SyncIds == 1 .. NumSync
AsyncIds == 1 .. NumAsync

NoReply == [code |-> 0]

ApiInit ==
    /\ activeJobs = 0
    /\ sreq = [i \in SyncIds |-> "new"]
    /\ jobs = <<>>
    /\ arun = [k \in AsyncIds |-> [state |-> "none", jobId |-> 0]]
    /\ areply = NoReply
    /\ lookup = NoReply
    /\ changes = [j \in AsyncIds |-> 0]

\* ------------------------------------------------------------ POST /scrape

\* if (activeJobs >= MAX_CONCURRENT_JOBS) with > in place of >=
Saturated_OffByOne(n) == n > MAX_CONCURRENT_JOBS

\* if (activeJobs >= MAX_CONCURRENT_JOBS)
Saturated(n) == n >= MAX_CONCURRENT_JOBS

\* requests are numbered in order of arrival
NextSync(i) == sreq[i] = "new" /\ \A k \in 1 .. i - 1 : sreq[k] # "new"

\* the handler from its start to its response or to the await of
\* scrapeGoogleMaps: 400 without a query, 429 when saturated, else activeJobs++
SyncRequest(i, hasQuery) ==
    /\ NextSync(i)
    /\ IF ~hasQuery
         THEN /\ sreq' = [sreq EXCEPT ![i] = "400"]
              /\ UNCHANGED activeJobs
         ELSE IF Saturated(activeJobs)
           THEN /\ sreq' = [sreq EXCEPT ![i] = "429"]
                /\ UNCHANGED activeJobs
           ELSE /\ sreq' = [sreq EXCEPT ![i] = "running"]
                /\ activeJobs' = activeJobs + 1
    /\ UNCHANGED <<extVars, poolVars, runVars, jobs, arun, areply, lookup, changes>>

\* scrapeGoogleMaps settled: res.json or res.status(500), finally activeJobs--
SyncSettle(i, ok) ==
    /\ sreq[i] = "running"
    /\ sreq' = [sreq EXCEPT ![i] = IF ok THEN "200" ELSE "500"]
    /\ activeJobs' = activeJobs - 1
    /\ UNCHANGED <<extVars, poolVars, runVars, jobs, arun, areply, lookup, changes>>

\* ------------------------------------------------------ POST /scrape/async

\* Map.prototype.set
MapSet(map, key, value) ==
    [k \in DOMAIN map \cup {key} |-> IF k = key THEN value ELSE map[k]]

\* a job id that is not unique
randomUUID_Fixed(map) == 1

\* randomUUID(): an id no stored job has; ids are numbered as they are issued
randomUUID(map) == Cardinality(DOMAIN map) + 1

\* { status: 'pending', query, createdAt, results: null, error: null }
PendingJob ==
    [status |-> "pending", results |-> JsNull, error |-> JsNull, completedAt |-> JsNull]

\* the completed update without the results
Completed_NoResults(job, list) ==
    [job EXCEPT !.status = "completed", !.completedAt = JsString("now")]

\* { ...jobs.get(jobId), status: 'completed', results, completedAt }
Completed(job, list) ==
    [job EXCEPT !.status = "completed", !.results = JsArray(list),
                !.completedAt = JsString("now")]

\* { ...jobs.get(jobId), status: 'failed', error: error.message, completedAt }
Failed(job, message) ==
    [job EXCEPT !.status = "failed", !.error = JsString(message),
                !.completedAt = JsString("now")]

\* the background calls whose promise is still pending
AsyncRunning == {k \in AsyncIds : arun[k].state = "running"}

\* the handler without a query: 400
AsyncBadRequest ==
    /\ areply' = [code |-> 400]
    /\ UNCHANGED <<extVars, poolVars, runVars, activeJobs, sreq, jobs, arun, lookup, changes>>

\* the handler with a query: store the pending job, start scrapeGoogleMaps
\* without awaiting it, answer { jobId, status: 'pending' }
AsyncRequest(k) ==
    /\ arun[k].state = "none"
    /\ \A m \in 1 .. k - 1 : arun[m].state # "none"
    /\ LET jobId == randomUUID(jobs)
       IN  /\ jobs' = MapSet(jobs, jobId, PendingJob)
           /\ arun' = [arun EXCEPT ![k] = [state |-> "running", jobId |-> jobId]]
           /\ areply' = [code |-> 200, jobId |-> jobId, status |-> "pending"]
    /\ UNCHANGED <<extVars, poolVars, runVars, activeJobs, sreq, lookup, changes>>

\* the background call resolved: the .then callback
AsyncThen(k, list) ==
    /\ arun[k].state = "running"
    /\ LET jobId == arun[k].jobId
       IN  /\ jobs' = MapSet(jobs, jobId, Completed(jobs[jobId], list))
           /\ changes' = [changes EXCEPT ![jobId] = @ + 1]
    /\ arun' = [arun EXCEPT ![k].state = "settled"]
    /\ UNCHANGED <<extVars, poolVars, runVars, activeJobs, sreq, areply, lookup>>

\* the background call rejected: the .catch callback
AsyncCatch(k, message) ==
    /\ arun[k].state = "running"
    /\ LET jobId == arun[k].jobId
       IN  /\ jobs' = MapSet(jobs, jobId, Failed(jobs[jobId], message))
           /\ changes' = [changes EXCEPT ![jobId] = @ + 1]
    /\ arun' = [arun EXCEPT ![k].state = "settled"]
    /\ UNCHANGED <<extVars, poolVars, runVars, activeJobs, sreq, areply, lookup>>

\* GET /scrape/status/:jobId
StatusLookup(id) ==
    /\ lookup' = IF id \in DOMAIN jobs
                   THEN [code |-> 200, jobId |-> id, job |-> jobs[id]]
                   ELSE [code |-> 404, jobId |-> id]
    /\ UNCHANGED <<extVars, poolVars, runVars, activeJobs, sreq, jobs, arun, areply, changes>>

\* ============================================== closeAll and process exit

\* the calls of closeAll(): one per signal handler, SIGTERM and SIGINT
Closers == {"SIGTERM", "SIGINT"}

BrowserIds == 1 .. NumCallers

NoBulk == [pc |-> "none", queries |-> <<>>, i |-> 0, runs |-> <<>>,
           allResults |-> <<>>, errors |-> <<>>]

NoScroll == [pc |-> "none", maxUrls |-> 0, previousCount |-> 0, stableCount |-> 0,
             counts |-> <<>>, frozen |-> FALSE]

NoLoop == [pc |-> "none", array |-> <<>>, parts |-> 1, i |-> 0, chunks |-> <<>>]

ExitInit ==
    /\ closers = [k \in Closers |-> [pc |-> "idle", idx |-> 0, gen |-> 0]]
    /\ browsersGen = 0
    /\ oldBrowsers = <<>>
    /\ closeCalls = [b \in BrowserIds |-> 0]
    /\ exited = FALSE

ExtInit ==
    /\ ExitInit
    /\ bulk = NoBulk
    /\ scroll = NoScroll
    /\ ploop = NoLoop

\* the array object a for-of loop started on array number gen iterates:
\* this.browsers itself, or an array this.browsers referred to earlier
ArrayOf(gen) == IF gen = browsersGen THEN browsers ELSE oldBrowsers[gen + 1]

\* closeAll() from the loop test of its for-of to the next await or the return:
\* the iterator reads the live length of its array; past the end the two
\* assignments this.browsers = [] and this.available = [] run
closeAll(k, idx, gen) ==
    IF idx < Len(ArrayOf(gen))
      THEN /\ closeCalls' = [closeCalls EXCEPT ![ArrayOf(gen)[idx + 1]] = @ + 1]
           /\ closers' = [closers EXCEPT ![k] =
                            [pc |-> "closing", idx |-> idx + 1, gen |-> gen]]
           /\ UNCHANGED <<browsers, available, browsersGen, oldBrowsers>>
      ELSE /\ oldBrowsers' = Append(oldBrowsers, browsers)
           /\ browsersGen' = browsersGen + 1
           /\ browsers' = <<>>
           /\ available' = <<>>
           /\ closers' = [closers EXCEPT ![k] = [pc |-> "closed", idx |-> 0, gen |-> 0]]
           /\ UNCHANGED closeCalls

\* a signal arrives: gracefulShutdown calls cleanup(), which calls closeAll()
gracefulShutdown(k) ==
    /\ ~exited
    /\ closers[k].pc = "idle"
    /\ closeAll(k, 0, browsersGen)
    /\ UNCHANGED <<connected, launched, apc, held, exited, bulk, scroll, ploop,
                   runVars, apiVars>>

\* await browser.close() settled; a rejection is caught and ignored
CloseSettled(k, ok) ==
    /\ ~exited
    /\ closers[k].pc = "closing"
    /\ connected' = IF ok THEN connected \ {ArrayOf(closers[k].gen)[closers[k].idx]}
                         ELSE connected
    /\ closeAll(k, closers[k].idx, closers[k].gen)
    /\ UNCHANGED <<launched, apc, held, exited, bulk, scroll, ploop,
                   runVars, apiVars>>

\* await cleanup() resolved: process.exit(0)
Exit(k) ==
    /\ ~exited
    /\ closers[k].pc = "closed"
    /\ exited' = TRUE
    /\ UNCHANGED <<closers, browsersGen, oldBrowsers, closeCalls, bulk, scroll, ploop,
                   poolVars, runVars, apiVars>>

ShutCallers == 1 .. NumShutCallers

\* ========================================================== POST /scrape/bulk

Queries == {"q1", "q2"}

RECURSIVE SeqsUpTo(_, _)
SeqsUpTo(S, n) ==
    IF n = 0 THEN {<<>>}
    ELSE LET shorter == SeqsUpTo(S, n - 1)
         IN  shorter \cup {Append(q, x) : q \in {t \in shorter : Len(t) = n - 1}, x \in S}

\* the queries arrays of a request body; equal queries may repeat
QueryLists == SeqsUpTo(Queries, MaxQueries)

\* error.message of a rejection; "" stands for a reason without a message
BulkReasons == ErrorMessages \cup {""}

NotStarted == [state |-> "none", results |-> <<>>, message |-> ""]
RunningRun == [state |-> "running", results |-> <<>>, message |-> ""]

\* the index after the last query of queries.slice(i, i + batchSize)
BatchEnd(i, n) == IF i + batchSize < n THEN i + batchSize ELSE n

\* Promise.allSettled that resolves as soon as one run has settled
AllSettled_Any(runs, from, to) ==
    \E j \in from + 1 .. to : runs[j].state \in {"fulfilled", "rejected"}

\* Promise.allSettled over the runs of queries from+1 .. to has resolved
AllSettled(runs, from, to) ==
    \A j \in from + 1 .. to : runs[j].state \in {"fulfilled", "rejected"}

\* result.reason?.message || 'Unknown error'
ErrorText(message) == IF message = "" THEN "Unknown error" ELSE message

\* the body of for (const result of batchResults) for one result
CollectOne(b, j) ==
    IF b.runs[j].state = "fulfilled"
      THEN [b EXCEPT !.allResults = MapSet(@, b.queries[j], b.runs[j].results)]
      ELSE [b EXCEPT !.errors = MapSet(@, b.queries[j], ErrorText(b.runs[j].message))]

\* for (const result of batchResults), in the order of the batch
RECURSIVE Collect(_, _, _)
Collect(b, from, to) ==
    IF from >= to THEN b ELSE Collect(CollectOne(b, from + 1), from + 1, to)

\* one pass of the for loop up to its await: batch.map starts the runs
StartBatch(b, i) ==
    [b EXCEPT !.i = i,
              !.runs = [j \in DOMAIN @ |->
                          IF j > i /\ j <= BatchEnd(i, Len(b.queries))
                            THEN RunningRun ELSE @[j]]]

\* res.json({ success: true, totalQueries, successfulQueries, results, errors })
Respond(b) ==
    [b EXCEPT !.pc = "responded", !.i = Len(b.queries)]

\* POST /scrape/bulk arrives: 400, or the first batch is started
BulkRequest(isArray, qs) ==
    /\ bulk.pc = "none"
    /\ isArray \/ qs = <<>>
    /\ bulk' = IF ~isArray \/ Len(qs) = 0 \/ Len(qs) > BulkLimit
                 THEN [NoBulk EXCEPT !.pc = "400"]
                 ELSE StartBatch([pc |-> "batch", queries |-> qs, i |-> 0,
                                  runs |-> [j \in 1 .. Len(qs) |-> NotStarted],
                                  allResults |-> <<>>, errors |-> <<>>], 0)
    /\ UNCHANGED <<closers, browsersGen, oldBrowsers, closeCalls, exited, scroll, ploop,
                   poolVars, runVars, apiVars>>

\* the scrapeGoogleMaps call of query j resolved
BulkRunResolve(j, list) ==
    /\ bulk.pc = "batch"
    /\ j \in DOMAIN bulk.runs
    /\ bulk.runs[j].state = "running"
    /\ bulk' = [bulk EXCEPT !.runs[j] =
                   [state |-> "fulfilled", results |-> list, message |-> ""]]
    /\ UNCHANGED <<closers, browsersGen, oldBrowsers, closeCalls, exited, scroll, ploop,
                   poolVars, runVars, apiVars>>

\* the scrapeGoogleMaps call of query j rejected
BulkRunReject(j, message) ==
    /\ bulk.pc = "batch"
    /\ j \in DOMAIN bulk.runs
    /\ bulk.runs[j].state = "running"
    /\ bulk' = [bulk EXCEPT !.runs[j] =
                   [state |-> "rejected", results |-> <<>>, message |-> message]]
    /\ UNCHANGED <<closers, browsersGen, oldBrowsers, closeCalls, exited, scroll, ploop,
                   poolVars, runVars, apiVars>>

\* await Promise.allSettled(...) resolved: the results of the batch are
\* recorded, then the next batch starts or the response is sent
BulkBatchDone ==
    /\ bulk.pc = "batch"
    /\ LET n == Len(bulk.queries)
           to == BatchEnd(bulk.i, n)
           recorded == Collect(bulk, bulk.i, to)
       IN  /\ AllSettled(bulk.runs, bulk.i, to)
           /\ bulk' = IF bulk.i + batchSize < n
                        THEN StartBatch(recorded, bulk.i + batchSize)
                        ELSE Respond(recorded)
    /\ UNCHANGED <<closers, browsersGen, oldBrowsers, closeCalls, exited, scroll, ploop,
                   poolVars, runVars, apiVars>>

\* the next request: the handler keeps nothing between requests
BulkNextRequest ==
    /\ bulk.pc \in {"400", "responded"}
    /\ bulk' = NoBulk
    /\ UNCHANGED <<closers, browsersGen, oldBrowsers, closeCalls, exited, scroll, ploop,
                   poolVars, runVars, apiVars>>

\* ============================================ the scroll loop of discovery

Counts == 0 .. MaxCount

\* one pass of the loop that keeps the stable counter on a changed count
ScrollPass_NoReset(s, currentCount) ==
    LET seen == [s EXCEPT !.counts = Append(@, currentCount)]
    IN  IF currentCount >= s.maxUrls
          THEN [seen EXCEPT !.pc = "exited"]
          ELSE LET stable == s.stableCount + 1
               IN  [seen EXCEPT !.stableCount = stable,
                                !.previousCount = currentCount,
                                !.pc = IF stable < StableLimit THEN "loop" ELSE "exited"]

\* one pass of while (stableCount < 3) with currentCount observed, up to the
\* next test of the loop condition
ScrollPass(s, currentCount) ==
    LET seen == [s EXCEPT !.counts = Append(@, currentCount)]
    IN  IF currentCount >= s.maxUrls
          THEN [seen EXCEPT !.pc = "exited"]
          ELSE IF currentCount = s.previousCount
                 THEN [seen EXCEPT !.stableCount = @ + 1,
                                   !.pc = IF s.stableCount + 1 < StableLimit
                                            THEN "loop" ELSE "exited"]
                 ELSE [seen EXCEPT !.stableCount = 0,
                                   !.previousCount = currentCount]

\* collectListingUrls(browser, query, maxResults * 2) reached its scroll loop
ScrollInit ==
    /\ PoolInit /\ ApiInit /\ ExitInit
    /\ bulk = NoBulk
    /\ ploop = NoLoop
    /\ rpc = "discBody"
    /\ maxResults \in 0 .. MaxScrollCap
    /\ workers = 1
    /\ pending = NoPending
    /\ chunks = <<>>
    /\ wpc = [w \in Workers |-> "none"]
    /\ widx = [w \in Workers |-> 0]
    /\ wout = [w \in Workers |-> <<>>]
    /\ seenBusinesses = {}
    /\ results = <<>>
    /\ ctxOpen = {0}
    /\ events = <<"acquire">>
    /\ finishOrder = <<>>
    /\ scroll = [pc |-> "loop", maxUrls |-> maxResults * 2, previousCount |-> 0,
                 stableCount |-> 0, counts |-> <<>>, frozen |-> FALSE]

\* one pass of the loop: wheel, wait, count the listing links
Observe(currentCount) ==
    /\ scroll.pc = "loop"
    /\ IF scroll.frozen
         THEN currentCount = Last(scroll.counts)
         ELSE Len(scroll.counts) < MaxObs
    /\ scroll' = ScrollPass(scroll, currentCount)
    /\ UNCHANGED <<closers, browsersGen, oldBrowsers, closeCalls, exited, bulk, ploop,
                   poolVars, runVars, apiVars>>

\* the page has loaded all the listings it will show: from now on every count
\* equals the one before
ListingsSettle ==
    /\ scroll.pc = "loop"
    /\ ~scroll.frozen
    /\ Len(scroll.counts) > 0
    /\ scroll' = [scroll EXCEPT !.frozen = TRUE]
    /\ UNCHANGED <<closers, browsersGen, oldBrowsers, closeCalls, exited, bulk, ploop,
                   poolVars, runVars, apiVars>>

\* ============================================ the loop of chunkArray

\* stands for the number Infinity next to an array of length len: every value
\* above len gives the same slice and the same outcome of i < array.length
Infinity(len) == len + 1

\* Math.ceil(array.length / parts) for array.length > 0 and any integer parts:
\* Infinity for parts = 0, and for parts < 0 the quotient rounded towards zero
chunkSize(len, parts) ==
    IF parts > 0 THEN CeilDiv(len, parts)
    ELSE IF parts = 0 THEN Infinity(len)
    ELSE 0 - (len \div (0 - parts))

\* a relative index of Array.prototype.slice: negative counts from the end
SliceIndex(len, k) ==
    IF k < 0 THEN (IF len + k < 0 THEN 0 ELSE len + k)
    ELSE (IF k > len THEN len ELSE k)

\* Array.prototype.slice(from, to) for any integers
slice(s, from, to) ==
    LET first == SliceIndex(Len(s), from)
        final == SliceIndex(Len(s), to)
    IN  IF first < final THEN SubSeq(s, first + 1, final) ELSE <<>>

\* scrapeGoogleMaps calls chunkArray(urls.slice(0, maxResults * 2), workers)
LoopInit ==
    /\ PoolInit /\ ApiInit /\ ExitInit
    /\ bulk = NoBulk
    /\ scroll = NoScroll
    /\ rpc = "partition"
    /\ maxResults \in 1 .. MaxLoopCap
    /\ workers \in (0 - MaxNegParts) .. MaxLoopParts
    /\ pending \in {[kind |-> "urls", n |-> n] : n \in 1 .. MaxLoopItems}
    /\ chunks = <<>>
    /\ wpc = [w \in Workers |-> "none"]
    /\ widx = [w \in Workers |-> 0]
    /\ wout = [w \in Workers |-> <<>>]
    /\ seenBusinesses = {}
    /\ results = <<>>
    /\ ctxOpen = {}
    /\ events = <<"acquire">>
    /\ finishOrder = <<>>
    /\ ploop = [pc |-> "loop", array |-> Candidates(Urls(pending.n), maxResults),
                parts |-> workers, i |-> 0, chunks |-> <<>>]

\* the loop test holds: chunks.push(array.slice(i, i + chunkSize)); i += chunkSize
LoopPass ==
    /\ ploop.pc = "loop"
    /\ ploop.i < Len(ploop.array)
    /\ Len(ploop.chunks) < MaxPasses
    /\ LET size == chunkSize(Len(ploop.array), ploop.parts)
       IN  ploop' = [ploop EXCEPT
                       !.chunks = Append(@, slice(ploop.array, ploop.i, ploop.i + size)),
                       !.i = @ + size]
    /\ UNCHANGED <<closers, browsersGen, oldBrowsers, closeCalls, exited, bulk, scroll,
                   poolVars, runVars, apiVars>>

\* the loop test fails: return chunks
LoopReturn ==
    /\ ploop.pc = "loop"
    /\ ~(ploop.i < Len(ploop.array))
    /\ ploop' = [ploop EXCEPT !.pc = "returned"]
    /\ chunks' = ploop.chunks
    /\ rpc' = "partitioned"
    /\ UNCHANGED <<closers, browsersGen, oldBrowsers, closeCalls, exited, bulk, scroll,
                   poolVars, maxResults, workers, pending, wpc, widx, wout,
                   seenBusinesses, results, ctxOpen, events, finishOrder, apiVars>>

\* ================================================= the partition step alone

\* scrapeGoogleMaps at line 186 with n urls discovered
PartitionInit ==
    /\ PoolInit /\ ApiInit /\ ExtInit
    /\ rpc = "partition"
    /\ maxResults \in 0 .. MaxPartCap
    /\ workers \in 1 .. MaxParts
    /\ pending \in {[kind |-> "urls", n |-> n] : n \in 1 .. MaxItems}
    /\ chunks = <<>>
    /\ wpc = [w \in Workers |-> "none"]
    /\ widx = [w \in Workers |-> 0]
    /\ wout = [w \in Workers |-> <<>>]
    /\ seenBusinesses = {}
    /\ results = <<>>
    /\ ctxOpen = {}
    /\ events = <<"acquire">>
    /\ finishOrder = <<>>

\* const chunks = chunkArray(urls.slice(0, maxResults * 2), workers)
Partition ==
    /\ rpc = "partition"
    /\ chunks' = chunkArray(Candidates(Urls(pending.n), maxResults), workers)
    /\ rpc' = "partitioned"
    /\ UNCHANGED <<poolVars, maxResults, workers, pending, wpc, widx, wout,
                   seenBusinesses, results, ctxOpen, events, finishOrder,
                   apiVars, extVars>>

\* ========================================================= specifications

\* one scrapeGoogleMaps call at a time against the pool, call after call
Init == PoolInit /\ RunInit /\ ApiInit /\ ExtInit

Next ==
    \/ \E mr \in 0 .. MaxCap, wk \in 1 .. MaxWorkers : Call(mr, wk)
    \/ AcquireRetry(RunCaller)
    \/ CreateDone(RunCaller)
    \/ CreateFail(RunCaller)
    \/ \E b \in connected : Disconnect(b)
    \/ Acquired
    \/ AcquireRejected
    \/ \E ok \in BOOLEAN : DiscContext(ok)
    \/ \E ok \in BOOLEAN : DiscPage(ok)
    \/ \E ok \in BOOLEAN : DiscRoute(ok)
    \/ DiscBodyThrow
    \/ DiscBodyNoListing
    \/ \E n \in 0 .. MaxUrls : DiscBodyUrls(n)
    \/ DiscCloseFail
    \/ DiscCloseThrow
    \/ DiscCloseEmpty
    \/ DiscCloseFound
    \/ \E w \in Workers, ok \in BOOLEAN : WorkerContext(w, ok)
    \/ \E w \in Workers, ok \in BOOLEAN : WorkerPage(w, ok)
    \/ \E w \in Workers, ok \in BOOLEAN : WorkerRoute(w, ok)
    \/ \E w \in Workers, name \in Names, phone \in Phones : WorkerExtract(w, name, phone)
    \/ \E w \in Workers : WorkerExtractNull(w)
    \/ \E w \in Workers : WorkerExtractThrow(w)
    \/ \E w \in Workers, ok \in BOOLEAN : WorkerClose(w, ok)
    \/ JoinResolve
    \/ JoinReject

Spec == Init /\ [][Next]_vars

\* concurrent callers of browserPool.acquire() and release()
PoolNext ==
    \/ \E c \in Callers : CallerAcquire(c)
    \/ \E c \in Callers : AcquireRetry(c)
    \/ \E c \in Callers : CreateDone(c)
    \/ \E c \in Callers : CreateFail(c)
    \/ \E c \in Callers : CallerRelease(c)
    \/ \E b \in connected : Disconnect(b)

SpecPool == Init /\ [][PoolNext]_vars

\* the pool under fair scheduling: a pending timer fires, a pending launch
\* settles, and every caller that holds a browser releases it
SpecPoolFair ==
    /\ Init
    /\ [][PoolNext]_vars
    /\ \A c \in Callers :
          /\ WF_vars(AcquireRetry(c))
          /\ WF_vars(CreateDone(c) \/ CreateFail(c))
          /\ WF_vars(CallerRelease(c))

\* POST /scrape requests
SyncNext ==
    \/ \E i \in SyncIds, hasQuery \in BOOLEAN : SyncRequest(i, hasQuery)
    \/ \E i \in SyncIds, ok \in BOOLEAN : SyncSettle(i, ok)

SpecSync == Init /\ [][SyncNext]_vars

\* POST /scrape/async and GET /scrape/status/:jobId requests
AsyncNext ==
    \/ AsyncBadRequest
    \/ \E k \in AsyncIds : AsyncRequest(k)
    \/ \E k \in AsyncIds, list \in ResultLists : AsyncThen(k, list)
    \/ \E k \in AsyncIds, message \in ErrorMessages : AsyncCatch(k, message)
    \/ \E id \in 1 .. NumAsync + 1 : StatusLookup(id)

SpecAsync == Init /\ [][AsyncNext]_vars

\* the pool while SIGTERM and SIGINT arrive; nothing runs after process.exit.
\* With at most maxSize callers no acquire() ever waits.
ShutdownNext ==
    \/ \E c \in ShutCallers : ~exited /\ CallerAcquire(c)
    \/ \E c \in ShutCallers : ~exited /\ CreateDone(c)
    \/ \E c \in ShutCallers : ~exited /\ CreateFail(c)
    \/ \E c \in ShutCallers : ~exited /\ CallerRelease(c)
    \/ \E b \in connected : ~exited /\ Disconnect(b)
    \/ \E k \in Closers : gracefulShutdown(k)
    \/ \E k \in Closers, ok \in BOOLEAN : CloseSettled(k, ok)
    \/ \E k \in Closers : Exit(k)

SpecShutdown == Init /\ [][ShutdownNext]_vars

\* POST /scrape/bulk requests, one after the other
BulkNext ==
    \/ \E isArray \in BOOLEAN, qs \in QueryLists : BulkRequest(isArray, qs)
    \/ \E j \in 1 .. MaxQueries, list \in ResultLists : BulkRunResolve(j, list)
    \/ \E j \in 1 .. MaxQueries, message \in BulkReasons : BulkRunReject(j, message)
    \/ BulkBatchDone
    \/ BulkNextRequest

SpecBulk == Init /\ [][BulkNext]_vars

\* the scroll loop for every sequence of listing counts; every pass of the
\* loop returns (the wait for network idle has a timeout and a catch)
ScrollNext ==
    \/ \E currentCount \in Counts : Observe(currentCount)
    \/ ListingsSettle

SpecScroll ==
    /\ ScrollInit
    /\ [][ScrollNext]_vars
    /\ WF_vars(\E currentCount \in Counts : Observe(currentCount))

\* the loop of chunkArray, pass by pass, for every integer worker count
LoopNext ==
    \/ LoopPass
    \/ LoopReturn

SpecLoop == LoopInit /\ [][LoopNext]_vars

\* the partition step for every number of urls, cap and worker count
PartitionNext == Partition

SpecPartition == PartitionInit /\ [][PartitionNext]_vars

\* ================================================================= claims

Settled == rpc \in {"done", "failed"}

HasAcquired == "acquire" \in Range(events)

\* the workers whose scrapeUrlChunk holds an open context and has not returned
RunningWithContext ==
    {w \in Workers : w \in ctxOpen /\ wpc[w] \in {"page", "route", "extract", "closing"}}

NoDuplicateKeys(res) ==
    \A i, j \in 1 .. Len(res) : i # j => Key(res[i]) # Key(res[j])

\* C1: the list a call returns holds no two records with the same dedup key
\* (name|phone) and at most maxResults records, whatever the extraction
\* outcomes and the order in which the workers finish.
C1_DedupAndCap ==
    rpc = "done" => NoDuplicateKeys(results) /\ Len(results) <= maxResults

\* a call returned a full list although worker 1 alone delivered two records
\* with one key and worker 2, which finished first, delivered more
C1_Witness ==
    /\ rpc = "done"
    /\ maxResults = 2
    /\ Len(results) = 2
    /\ Len(wout[1]) = 2
    /\ Key(wout[1][1]) = Key(wout[1][2])
    /\ Len(wout[2]) >= 1
    /\ finishOrder = <<2, 1>>

\* C2: the pool never holds more than maxSize created browsers, under any
\* interleaving of acquire() calls suspended in browser creation.
C2_AtMostMaxSize == launched <= maxSize /\ Len(browsers) <= maxSize

\* C3: a call that acquired a browser calls release() on it exactly once and
\* before it settles, on the normal path, on the early return and on the error
\* path; on the error path the call still rejects, after the release.
C3_ReleaseExactlyOnce ==
    /\ (HasAcquired /\ ~Settled) => events = <<"acquire">>
    /\ rpc = "done" =>
          /\ events = <<"acquire", "release", "return">>
          /\ pending.kind # "throw"
          /\ \A w \in Launched : wpc[w] = "done"
    /\ (rpc = "failed" /\ HasAcquired) => events = <<"acquire", "release", "throw">>
    /\ (Settled /\ HasAcquired /\ held[RunCaller] \in connected) =>
          Cardinality({i \in 1 .. Len(available) : available[i] = held[RunCaller]}) = 1

\* a call rejected because a worker threw during fan-in, its browser back in
\* the idle list
C3_Witness ==
    /\ rpc = "failed"
    /\ events = <<"acquire", "release", "throw">>
    /\ \E w \in Launched : wpc[w] = "failed"
    /\ held[RunCaller] \in Range(available)

\* C4: the call never releases its browser while one of its workers still runs
\* with an open context on it, also when a worker fails before the others end.
C4_JoinBeforeRelease ==
    "release" \in Range(events) => RunningWithContext = {}

\* C9: when discovery returns no url the call returns an empty list without
\* raising, starts no worker and releases its browser to the pool. Discovery
\* has returned no url when its pending result is the empty list and its
\* context is closed.
C9_EmptyDiscovery ==
    (Settled /\ pending = [kind |-> "urls", n |-> 0] /\ 0 \notin ctxOpen) =>
        /\ rpc = "done"
        /\ results = <<>>
        /\ events = <<"acquire", "release", "return">>
        /\ chunks = <<>>
        /\ \A w \in Workers : wpc[w] = "none"
        /\ held[RunCaller] \in connected => held[RunCaller] \in Range(available)

\* a call that returned after an empty discovery, its browser idle in the pool
C9_Witness ==
    /\ rpc = "done"
    /\ pending = [kind |-> "urls", n |-> 0]
    /\ results = <<>>
    /\ held[RunCaller] \in Range(available)

RECURSIVE Flatten(_, _)
\* the outputs of workers 1 .. n, concatenated in that order
Flatten(out, n) == IF n = 0 THEN <<>> ELSE Flatten(out, n - 1) \o out[n]

\* the positions of a list whose key occurs at no earlier position
FirstOccurrences(cat) ==
    {i \in 1 .. Len(cat) : \A j \in 1 .. i - 1 : Key(cat[j]) # Key(cat[i])}

\* the first cap records of a list with pairwise distinct keys
FirstDistinct(cat, cap) ==
    LET first == FirstOccurrences(cat)
        n == IF cap < Cardinality(first) THEN cap ELSE Cardinality(first)
    IN  [k \in 1 .. n |->
           cat[CHOOSE i \in first : Cardinality({j \in first : j <= i}) = k]]

\* C10: the returned list is the first maxResults records with distinct keys
\* of the worker outputs taken in worker-index order, chunk order within a
\* worker, whatever the order in which the workers finished.
C10_MergeInIndexOrder ==
    rpc = "done" => results = FirstDistinct(Flatten(wout, Len(chunks)), maxResults)

\* worker 2 finished before worker 1, both delivered records with three keys in
\* all, and the list starts with the record of worker 1 and is cut at the cap
C10_Witness ==
    /\ rpc = "done"
    /\ finishOrder = <<2, 1>>
    /\ maxResults = 2
    /\ Len(wout[1]) >= 1
    /\ Len(wout[2]) >= 1
    /\ Cardinality({Key(b) : b \in Range(wout[1]) \cup Range(wout[2])}) > 2
    /\ Len(results) = 2
    /\ results[1] = wout[1][1]

\* the scrapeGoogleMaps calls in flight, by entry point
InFlight == Cardinality({i \in SyncIds : sreq[i] = "running"}) + Cardinality(AsyncRunning)

\* C5: at most MAX_CONCURRENT_JOBS scrapeGoogleMaps calls are in flight at any
\* moment, whichever entry point started them.
C5_RunsBounded == InFlight <= MAX_CONCURRENT_JOBS

\* C6: on POST /scrape the test of activeJobs and its increment are one step:
\* activeJobs stays in 0 .. MAX_CONCURRENT_JOBS and counts the admitted requests
\* still running; a request with a query that arrives when MAX_CONCURRENT_JOBS
\* are running gets 429 and leaves activeJobs alone, and only then does a
\* request get 429; a request that finishes, with 200 or 500, decrements it.
C6_Admission ==
    /\ [](/\ activeJobs \in 0 .. MAX_CONCURRENT_JOBS
          /\ activeJobs = Cardinality({i \in SyncIds : sreq[i] = "running"}))
    /\ [][\A i \in SyncIds :
            /\ (sreq[i] = "new" /\ sreq'[i] \notin {"new", "400"}) =>
                  IF activeJobs = MAX_CONCURRENT_JOBS
                    THEN sreq'[i] = "429" /\ activeJobs' = activeJobs
                    ELSE sreq'[i] = "running" /\ activeJobs' = activeJobs + 1
            /\ (sreq[i] = "running" /\ sreq'[i] # "running") =>
                  sreq'[i] \in {"200", "500"} /\ activeJobs' = activeJobs - 1]_vars

\* five requests run, a sixth was rejected, one of the five failed and a later
\* request took its place
C6_Witness ==
    /\ activeJobs = MAX_CONCURRENT_JOBS
    /\ sreq[1] = "500"
    /\ sreq[6] = "429"
    /\ sreq[7] = "running"

\* C7: a job is created pending and changes at most once, to completed or to
\* failed; a completed or failed job never changes again; a lookup of an
\* unknown id answers 404.
C7_JobChangesOnce ==
    /\ [](\A j \in DOMAIN jobs :
            /\ jobs[j].status \in {"pending", "completed", "failed"}
            /\ changes[j] <= 1
            /\ jobs[j].status = "pending" <=> changes[j] = 0)
    /\ [][/\ \A j \in DOMAIN jobs :
               jobs[j].status # "pending" => j \in DOMAIN jobs' /\ jobs'[j] = jobs[j]
          /\ \A j \in DOMAIN jobs' \ DOMAIN jobs : jobs'[j].status = "pending"
          /\ lookup' # lookup =>
               (lookup'.code = 404 <=> lookup'.jobId \notin DOMAIN jobs)]_vars

\* one job completed, one failed, one still pending, and an unknown id looked up
C7_Witness ==
    /\ \E j \in DOMAIN jobs : jobs[j].status = "completed"
    /\ \E j \in DOMAIN jobs : jobs[j].status = "failed"
    /\ \E j \in DOMAIN jobs : jobs[j].status = "pending"
    /\ lookup.code = 404

\* a job snapshot is consistent with its status
Consistent(job) ==
    /\ job.status = "pending" => job.results = JsNull /\ job.error = JsNull
    /\ job.status = "completed" => job.results[1] = "array" /\ job.error = JsNull
    /\ job.status = "failed" => job.error[1] = "string" /\ job.results = JsNull

\* C8: every stored job is consistent with its status: pending with results
\* and error unset, completed with a result list and no error, failed with an
\* error string and no result list; the submission answers pending, and a
\* lookup answers the stored job, pending as long as its call has not settled.
C8_JobConsistent ==
    /\ [](/\ \A j \in DOMAIN jobs : Consistent(jobs[j])
          /\ areply.code = 200 => areply.status = "pending")
    /\ [][/\ areply' # areply /\ areply'.code = 200 =>
               /\ areply'.jobId \in DOMAIN jobs'
               /\ jobs'[areply'.jobId] = PendingJob
          /\ lookup' # lookup /\ lookup'.code = 200 =>
               /\ lookup'.job = jobs[lookup'.jobId]
               /\ Consistent(lookup'.job)
               /\ (\E k \in AsyncRunning : arun[k].jobId = lookup'.jobId) =>
                     lookup'.job.status = "pending"]_vars

\* a lookup answered a completed job with its list while another job had failed
C8_Witness ==
    /\ lookup.code = 200
    /\ lookup.job.status = "completed"
    /\ lookup.job.results = JsArray(<<"r1">>)
    /\ \E j \in DOMAIN jobs : jobs[j].status = "failed" /\ jobs[j].error[1] = "string"

\* the list handed to chunkArray in the partition step
Items == Candidates(Urls(pending.n), maxResults)

Sizes(cs) == [c \in 1 .. Len(cs) |-> Len(cs[c])]

\* C11 as stated: with maxResults = 7, workers = 3 and 15 urls discovered the
\* partition step hands the workers 3 chunks of sizes 5, 5 and 5.
C11_Sizes555 ==
    (rpc = "partitioned" /\ maxResults = 7 /\ workers = 3 /\ pending.n = 15) =>
        Sizes(chunks) = <<5, 5, 5>>

\* C11 amended: with maxResults = 7, workers = 3 and 15 urls discovered only
\* the first 2 * 7 = 14 urls are partitioned, into 3 chunks of sizes 5, 5 and 4.
C11_Sizes554 ==
    (rpc = "partitioned" /\ maxResults = 7 /\ workers = 3 /\ pending.n = 15) =>
        /\ Len(Items) = 14
        /\ Sizes(chunks) = <<5, 5, 4>>

\* the partition step ran on 15 urls with maxResults = 7 and workers = 3
C11_Witness ==
    /\ rpc = "partitioned"
    /\ maxResults = 7
    /\ workers = 3
    /\ pending.n = 15
    /\ Len(chunks) = 3

RECURSIVE SumLen(_, _)
SumLen(cs, n) == IF n = 0 THEN 0 ELSE SumLen(cs, n - 1) + Len(cs[n])

\* C12: the chunks, concatenated in order, are the item list: every item is in
\* exactly one chunk, the chunks are contiguous and in order, and their
\* lengths add up to the length of the list.
C12_ChunksCoverItems ==
    rpc = "partitioned" =>
        /\ Flatten(chunks, Len(chunks)) = Items
        /\ SumLen(chunks, Len(chunks)) = Len(Items)
        /\ \A k \in 1 .. Len(Items) :
              Cardinality({c \in 1 .. Len(chunks) : Items[k] \in Range(chunks[c])}) = 1

\* ten items were cut into three full chunks and a shorter last one
C12_Witness ==
    /\ rpc = "partitioned"
    /\ Len(Items) = 10
    /\ Len(chunks) = 4
    /\ Len(chunks[4]) < Len(chunks[1])

\* C13: for a non-empty list chunkArray returns exactly workers chunks, so
\* that exactly workers workers are launched.
C13_ExactlyWorkersChunks ==
    (rpc = "partitioned" /\ Len(Items) > 0) => Len(chunks) = workers

\* C14: the sizes of any two chunks differ by at most 1.
C14_Balanced ==
    rpc = "partitioned" =>
        \A c, d \in 1 .. Len(chunks) : Len(chunks[c]) - Len(chunks[d]) <= 1

\* the idle browsers that are still connected
IdleConnected == Range(available) \cap connected

\* caller c went from calling acquire() (or polling in it) to another position
AcquireStep(c) == apc[c] \in {"idle", "waiting"} /\ apc'[c] # apc[c]

\* C15: acquire() never returns a browser that is disconnected when it is
\* returned; release() adds a browser to the idle set only if it is connected;
\* a disconnected browser never becomes connected again, so that a browser
\* dropped at release is never returned by a later acquire().
C15_OnlyConnectedReturned ==
    [][/\ \A c \in Callers :
             (apc[c] # "held" /\ apc'[c] = "held") => held'[c] \in connected'
       /\ \A c \in Callers :
             (apc[c] = "held" /\ apc'[c] = "released" /\ held[c] \notin connected) =>
                 /\ available' = available
                 /\ held[c] \notin Range(available')
       /\ \A b \in Range(available') : b \in Range(available) \/ b \in connected
       /\ \A b \in connected' : b \in connected \/ b > launched
      ]_vars

\* a disconnected browser was released and dropped, and a caller holds a
\* connected browser that an earlier caller released into the idle set
C15_Witness ==
    \E c, d, e \in Callers :
        /\ apc[c] = "released" /\ held[c] \notin connected
        /\ held[c] \notin Range(available)
        /\ apc[d] = "released" /\ apc[e] = "held"
        /\ held[e] = held[d] /\ held[e] \in connected

\* C16: an acquire() called while the idle set holds a connected browser
\* returns an idle connected browser and creates no new browser, also when
\* the idle set holds disconnected browsers as well.
C16_ReusesIdleConnected ==
    [][\A c \in Callers :
          (AcquireStep(c) /\ IdleConnected # {}) =>
              /\ apc'[c] = "held"
              /\ held'[c] \in IdleConnected
      ]_vars

RECURSIVE AcceptedUpTo(_, _)
AcceptedUpTo(out, n) ==
    IF n = 0 THEN 0 ELSE AcceptedUpTo(out, n - 1) + Len(out[n])

\* the number of records the workers of the run have accepted
Accepted(out) == AcceptedUpTo(out, MaxWorkers)

\* worker w passes its budget check and invokes the extractor for an item
StartsItem(w) ==
    wpc'[w] = "extract" /\ (wpc[w] # "extract" \/ widx'[w] # widx[w])

\* C19: once the records accepted by all workers have exhausted the budget
\* (maxResults accepted), no worker invokes the extractor for a further item.
C19_StopsAtBudget ==
    [][\A w \in Workers : StartsItem(w) => Accepted(wout') < maxResults]_vars

\* C20: within one run each dedup key is appended to a worker output at most
\* once across all workers, items of one chunk and of different chunks alike.
C20_KeyAcceptedOnce ==
    \A v, w \in Workers :
        \A i \in 1 .. Len(wout[v]), j \in 1 .. Len(wout[w]) :
            (v # w \/ i # j) => Key(wout[v][i]) # Key(wout[w][j])

\* C17: close() is attempted exactly once on every browser the pool created:
\* never twice, also with two closeAll() calls in progress, and once for each
\* created browser by the time the process exits.
C17_ClosedExactlyOnce ==
    /\ \A b \in 1 .. launched : closeCalls[b] <= 1
    /\ exited => \A b \in 1 .. launched : closeCalls[b] = 1

BulkIds == DOMAIN bulk.runs

BulkStarted(j) == bulk.runs[j].state # "none"

BulkSettled(j) == bulk.runs[j].state \in {"fulfilled", "rejected"}

\* the number of the batch query j belongs to
BatchOf(j) == (j - 1) \div batchSize

\* the last run of the same query as run j that ended in the same way
LastLike(j) ==
    CHOOSE k \in BulkIds :
        /\ bulk.queries[k] = bulk.queries[j]
        /\ bulk.runs[k].state = bulk.runs[j].state
        /\ \A m \in BulkIds :
              (bulk.queries[m] = bulk.queries[j] /\ bulk.runs[m].state = bulk.runs[j].state)
                  => m <= k

\* C18: a bulk request runs its queries in consecutive batches of 3: at most 3
\* of its runs are in flight, the runs of a batch start together and only
\* after every run of the batches before has settled, and when the response is
\* sent every query was run, each fulfilled one reported under results and
\* each failed one under errors.
C18_BulkBatches ==
    bulk.pc \in {"batch", "responded"} =>
        /\ Cardinality({j \in BulkIds : bulk.runs[j].state = "running"}) <= batchSize
        /\ \A j, k \in BulkIds :
              (BulkStarted(k) /\ BatchOf(j) < BatchOf(k)) => BulkSettled(j)
        /\ \A j, k \in BulkIds :
              (BulkStarted(k) /\ BatchOf(j) = BatchOf(k)) => BulkStarted(j)
        /\ bulk.pc = "responded" =>
              \A j \in BulkIds :
                  /\ BulkSettled(j)
                  /\ bulk.runs[j].state = "fulfilled" =>
                        /\ bulk.queries[j] \in DOMAIN bulk.allResults
                        /\ bulk.allResults[bulk.queries[j]] = bulk.runs[LastLike(j)].results
                  /\ bulk.runs[j].state = "rejected" =>
                        /\ bulk.queries[j] \in DOMAIN bulk.errors
                        /\ bulk.errors[bulk.queries[j]] =
                               ErrorText(bulk.runs[LastLike(j)].message)

\* a response to four queries: the first failed, another of its batch and the
\* query of the second batch succeeded, and both are reported
C18_Witness ==
    /\ bulk.pc = "responded"
    /\ Len(bulk.queries) = 4
    /\ bulk.runs[1].state = "rejected"
    /\ bulk.runs[2].state = "fulfilled"
    /\ bulk.runs[4].state = "fulfilled"
    /\ bulk.queries[1] \in DOMAIN bulk.errors
    /\ bulk.queries[4] \in DOMAIN bulk.allResults
    /\ bulk.queries[1] # bulk.queries[4]

\* worker w is done with an item without having accepted a record for it
SkipsItem(w) ==
    /\ wpc[w] = "extract"
    /\ wpc'[w] # "extract" \/ widx'[w] # widx[w]
    /\ wout'[w] = wout[w]

\* C21: a failure of the extractor on one item is absorbed: the worker moves
\* to its next item (or, after the last one, to closing its context), neither
\* the worker nor the run fails in that step, the records accepted so far are
\* kept, and when the run returns every accepted record is in the returned
\* list by its key unless the cap was reached.
C21_ItemFailureAbsorbed ==
    [][/\ \A w \in Workers :
             SkipsItem(w) =>
                 /\ widx'[w] = widx[w] + 1
                 /\ wpc'[w] = IF /\ widx'[w] <= Len(chunks[w])
                                 /\ Cardinality(seenBusinesses) < maxResults
                                THEN "extract" ELSE "closing"
                 /\ rpc' = rpc
                 /\ wout' = wout
       /\ (rpc = "fanin" /\ rpc' = "done") =>
             \A w \in Launched :
                 \A i \in 1 .. Len(wout[w]) :
                     \/ Key(wout[w][i]) \in {Key(r) : r \in Range(results')}
                     \/ Len(results') >= maxResults
      ]_vars

\* the worker skipped the first url of its chunk, extracted the second, and
\* the run returned that record
C21_Witness ==
    /\ rpc = "done"
    /\ chunks = <<<<1, 2>>>>
    /\ widx[1] = 3
    /\ Len(wout[1]) = 1
    /\ wout[1][1].googleMapsUrl = 2
    /\ results = wout[1]

\* the positions of the call inside collectListingUrls
InDiscovery == {"discCtx", "discPage", "discRoute", "discBody", "discClose"}

\* scrapeUrlChunk of worker w settles in this step
WorkerSettles(w) ==
    wpc[w] \notin {"none", "done", "failed"} /\ wpc'[w] \in {"done", "failed"}

\* collectListingUrls settles in this step
DiscoverySettles == rpc \in InDiscovery /\ rpc' \notin InDiscovery

\* C22: a worker or the discovery settles only out of the close() of its
\* context, or without a context when newContext failed: on no path, a failure
\* of page creation or of request-interception setup included, does it settle
\* with its context open and close() never called.
C22_ContextClosedOnEveryPath ==
    [][/\ \A w \in Workers :
             WorkerSettles(w) => (wpc[w] = "closing" \/ w \notin ctxOpen')
       /\ DiscoverySettles => (rpc = "discClose" \/ 0 \notin ctxOpen')
      ]_vars

\* the count the k-th observation is compared with: the observation before,
\* and for the first one the initial previousCount = 0
CountBefore(k) == IF k = 1 THEN 0 ELSE scroll.counts[k - 1]

UnchangedAt(k) == scroll.counts[k] = CountBefore(k)

\* the number of observations up to the k-th that ended unchanged in a row
RECURSIVE UnchangedRun(_)
UnchangedRun(k) ==
    IF k = 0 \/ ~UnchangedAt(k) THEN 0 ELSE UnchangedRun(k - 1) + 1

\* the loop exits at its k-th pass
ExitsAt(k) == scroll.counts[k] >= scroll.maxUrls \/ UnchangedRun(k) >= StableLimit

\* C23: the scroll loop exits exactly at the first pass whose count is >= the
\* target or is the 3rd in a row unchanged from the count before (0 before the
\* first pass); the stable counter is the length of that run, zero after every
\* changed count; and once the counts stop changing the loop exits.
C23_ScrollExit ==
    /\ [](scroll.pc \in {"loop", "exited"} =>
            LET n == Len(scroll.counts)
            IN  /\ \A k \in 1 .. n - 1 : ~ExitsAt(k)
                /\ scroll.pc = "exited" <=> (n > 0 /\ ExitsAt(n))
                /\ scroll.pc = "loop" => scroll.stableCount = UnchangedRun(n)
                /\ (scroll.pc = "loop" /\ n > 0 /\ ~UnchangedAt(n)) =>
                       scroll.stableCount = 0)
    /\ scroll.frozen ~> scroll.pc = "exited"

\* the loop exited on the third unchanged count after the count had changed
C23_Witness ==
    /\ scroll.pc = "exited"
    /\ scroll.counts = <<1, 3, 3, 3, 3>>
    /\ scroll.maxUrls = 4
    /\ scroll.frozen

\* C24: every acquire() call that has to wait eventually stops waiting: it
\* gets an idle browser or goes on to create one, also after created browsers
\* have disconnected while idle or while checked out.
C24_AcquireReturns ==
    \A c \in Callers : (apc[c] = "waiting") ~> (apc[c] # "waiting")

\* C25: the partition step terminates for every integer worker count, 0 and
\* negative ones included: every pass of the loop moves i forward towards
\* array.length, and the list never holds more chunks than there are items.
C25_PartitionTerminates ==
    /\ [][ploop'.pc = "loop" => ploop'.i > ploop.i]_ploop
    /\ [](Len(ploop.chunks) <= Len(ploop.array))

\* for a worker count >= 1 the loop returns what chunkArray is modelled to return
LoopAgreesWithChunkArray ==
    (ploop.pc = "returned" /\ ploop.parts >= 1) =>
        ploop.chunks = chunkArray(ploop.array, ploop.parts)

====
